---- MODULE Spec2Model ----
(***************************************************************************)
(* A model of converters/bvh2csv.py: the command-line run, bvh2csv, the    *)
(* location emitter with its recursive forward-kinematics walker           *)
(* get_world_locations, and the rotation emitter.                          *)
(*                                                                         *)
(* Numbers are integers: angles are multiples of 90 degrees, so that every *)
(* rotation matrix is an integer matrix and the matrix products of the     *)
(* code are computed exactly.                                              *)
(***************************************************************************)
EXTENDS Integers, Sequences, FiniteSets, TLC

\* ------------------------------------------------------------------ bounds
\* Largest number of nodes (ROOT, JOINT, End Site) of an input skeleton.
MaxNodes == 4
\* bvh_tree.nframes of the inputs.
NFrames == 2

\* ------------------------------------------------------- vectors, matrices
Frames == 1..NFrames

\* np.eye(3)
Eye3 == << <<1, 0, 0>>, <<0, 1, 0>>, <<0, 0, 1>> >>

\* cos and sin of a multiple of 90 degrees
Cos(deg) == CASE deg % 360 = 0 -> 1 [] deg % 360 = 180 -> -1 [] OTHER -> 0
Sin(deg) == CASE deg % 360 = 90 -> 1 [] deg % 360 = 270 -> -1 [] OTHER -> 0

\* The elementary rotation about one axis ("x", "y" or "z").
AxisRotation(axis, deg) ==
    CASE axis = "x" -> << <<1, 0, 0>>, <<0, Cos(deg), -Sin(deg)>>, <<0, Sin(deg), Cos(deg)>> >>
      [] axis = "y" -> << <<Cos(deg), 0, Sin(deg)>>, <<0, 1, 0>>, <<-Sin(deg), 0, Cos(deg)>> >>
      [] OTHER      -> << <<Cos(deg), -Sin(deg), 0>>, <<Sin(deg), Cos(deg), 0>>, <<0, 0, 1>> >>

\* np.array(s): the sequence s with every element computed, once.
array(s) == s \o <<>>

Mul3(A, B) ==
    LET e(i, j) == A[i][1] * B[1][j] + A[i][2] * B[2][j] + A[i][3] * B[3][j]
    IN  << <<e(1, 1), e(1, 2), e(1, 3)>>,
           <<e(2, 1), e(2, 2), e(2, 3)>>,
           <<e(3, 1), e(3, 2), e(3, 3)>> >>

\* t3d.affines.compose(T, R, Z): the 4x4 affine of translation T, rotation R
\* and zooms Z.
compose(T, R, Z) ==
    LET e(i, j) == IF i <= 3 /\ j <= 3 THEN R[i][j] * Z[j]
                   ELSE IF i <= 3 THEN T[i]
                   ELSE IF j = 4 THEN 1 ELSE 0
    IN  << <<e(1, 1), e(1, 2), e(1, 3), e(1, 4)>>,
           <<e(2, 1), e(2, 2), e(2, 3), e(2, 4)>>,
           <<e(3, 1), e(3, 2), e(3, 3), e(3, 4)>>,
           <<e(4, 1), e(4, 2), e(4, 3), e(4, 4)>> >>

\* np.matmul of two 4x4 matrices.
MatMul4(A, B) ==
    LET e(i, j) == A[i][1] * B[1][j] + A[i][2] * B[2][j] + A[i][3] * B[3][j] + A[i][4] * B[4][j]
    IN  << <<e(1, 1), e(1, 2), e(1, 3), e(1, 4)>>,
           <<e(2, 1), e(2, 2), e(2, 3), e(2, 4)>>,
           <<e(3, 1), e(3, 2), e(3, 3), e(3, 4)>>,
           <<e(4, 1), e(4, 2), e(4, 3), e(4, 4)>> >>

\* np.matmul of two stacks of matrices, one matrix per frame.
matmul(As, Bs) == array([f \in DOMAIN As |-> MatMul4(As[f], Bs[f])])

\* M[:, :3, 3] = T for one matrix M.
SetTranslation(M, T) ==
    LET e(i, j) == IF i <= 3 /\ j = 4 THEN T[i] ELSE M[i][j]
    IN  << <<e(1, 1), e(1, 2), e(1, 3), e(1, 4)>>,
           <<e(2, 1), e(2, 2), e(2, 3), e(2, 4)>>,
           <<e(3, 1), e(3, 2), e(3, 3), e(3, 4)>>,
           <<e(4, 1), e(4, 2), e(4, 3), e(4, 4)>> >>

\* M[:, :3, 3] *= k for one matrix M.
ScaleTranslation(M, k) ==
    LET e(i, j) == IF i <= 3 /\ j = 4 THEN M[i][j] * k ELSE M[i][j]
    IN  << <<e(1, 1), e(1, 2), e(1, 3), e(1, 4)>>,
           <<e(2, 1), e(2, 2), e(2, 3), e(2, 4)>>,
           <<e(3, 1), e(3, 2), e(3, 3), e(3, 4)>>,
           <<e(4, 1), e(4, 2), e(4, 3), e(4, 4)>> >>

\* M[:3, 3]
Translation(M) == <<M[1][4], M[2][4], M[3][4]>>

\* channel[1:] and channel[:1].lower() of a channel name.
ChannelKind(channel) ==
    IF channel \in {"Xrotation", "Yrotation", "Zrotation"} THEN "rotation" ELSE "position"
ChannelAxis(channel) ==
    CASE channel \in {"Xrotation", "Xposition"} -> "x"
      [] channel \in {"Yrotation", "Yposition"} -> "y"
      [] OTHER -> "z"

\* SelectRotations without its condition: every channel is kept.
SelectAllChannels(s) == s

\* [x for x in s if P(x)]
RECURSIVE SelectRotations(_)
SelectRotations(s) ==
    IF s = <<>> THEN <<>>
    ELSE IF ChannelKind(Head(s)) = "rotation" THEN <<Head(s)>> \o SelectRotations(Tail(s))
    ELSE SelectRotations(Tail(s))

\* s[::-1]
Reverse(s) == [i \in 1..Len(s) |-> s[Len(s) + 1 - i]]

\* list.index
IndexOf(s, x) == CHOOSE i \in 1..Len(s) : s[i] = x /\ \A j \in 1..(i - 1) : s[j] # x

\* ------------------------------------------------------------ the BVH tree
\* A parsed tree (bvh.Bvh) is a record of per-node sequences. Node 1 is the
\* ROOT node; parent[i] < i; the children of a node are listed in increasing
\* node number. kind[i] is value[0] of the node ("ROOT", "JOINT" or "End") and
\* name[i] is value[1]. world_transforms[i] = <<>> while the attribute is not
\* set on the node.
Nodes(tree) == 1..Len(tree.kind)

\* next(bvh_tree.root.filter('ROOT'))
RootOf(tree) == CHOOSE i \in Nodes(tree) : tree.kind[i] = "ROOT"

RECURSIVE Ascending(_)
Ascending(S) ==
    IF S = {} THEN <<>>
    ELSE LET m == CHOOSE x \in S : \A y \in S : x <= y
         IN  <<m>> \o Ascending(S \ {m})

\* joint.filter(key): the children of joint whose value[0] is key, in order.
filter(tree, joint, key) ==
    Ascending({i \in Nodes(tree) : tree.parent[i] = joint /\ tree.kind[i] = key})

\* Bvh.get_joint(name): the ROOT node of that name, else the first JOINT node
\* of that name. 0 stands for LookupError.
get_joint(tree, name) ==
    LET roots  == {i \in Nodes(tree) : tree.kind[i] = "ROOT" /\ tree.name[i] = name}
        joints == {i \in Nodes(tree) : tree.kind[i] = "JOINT" /\ tree.name[i] = name}
    IN  IF roots # {} THEN CHOOSE i \in roots : \A j \in roots : i <= j
        ELSE IF joints # {} THEN CHOOSE i \in joints : \A j \in joints : i <= j
        ELSE 0

\* Bvh.get_joints(): the ROOT and JOINT nodes in depth-first order.
RECURSIVE JointsBelow(_, _)
JointsBelow(tree, pending) ==
    IF pending = <<>> THEN <<>>
    ELSE <<Head(pending)>>
         \o JointsBelow(tree, filter(tree, Head(pending), "JOINT") \o Tail(pending))
get_joints(tree) == JointsBelow(tree, <<RootOf(tree)>>)

\* Bvh.joint_channels(name)
joint_channels(tree, name) == tree.CHANNELS[get_joint(tree, name)]

\* Bvh.frames_joint_channels(name, channels): per frame, the values of the
\* named channels of the joint.
frames_joint_channels(tree, name, channels) ==
    LET j == get_joint(tree, name)
    IN  [f \in 1..tree.nframes |->
            [c \in 1..Len(channels) |-> tree.frames[j][f][IndexOf(tree.CHANNELS[j], channels[c])]]]

\* The value of one channel of a joint at a frame, 0 when the joint has no
\* such channel.
ChannelValue(tree, j, f, channel) ==
    IF \E c \in 1..Len(tree.CHANNELS[j]) : tree.CHANNELS[j][c] = channel
    THEN tree.frames[j][f][IndexOf(tree.CHANNELS[j], channel)]
    ELSE 0

RotationChannelOf(axis) ==
    CASE axis = "x" -> "Xrotation" [] axis = "y" -> "Yrotation" [] OTHER -> "Zrotation"

\* The rotation matrix of static-frame Euler axes (the first axis is applied
\* first, so it is the rightmost factor), each angle read from the joint's
\* rotation channel of that axis.
RECURSIVE StaticEuler(_, _, _, _)
StaticEuler(tree, j, f, axes) ==
    IF axes = <<>> THEN Eye3
    ELSE Mul3(StaticEuler(tree, j, f, Tail(axes)),
              AxisRotation(Head(axes), ChannelValue(tree, j, f, RotationChannelOf(Head(axes)))))

\* converters.bvh_transforms.get_affines(bvh_tree, joint_name, axes): per
\* frame, the 4x4 affine of the joint's channel translation (zero without
\* position channels) and its composed rotation, no scale.
get_affines(tree, joint_name, axes) ==
    LET j == get_joint(tree, joint_name)
    IN  array([f \in 1..tree.nframes |->
            compose(<<ChannelValue(tree, j, f, "Xposition"),
                      ChannelValue(tree, j, f, "Yposition"),
                      ChannelValue(tree, j, f, "Zposition")>>,
                    StaticEuler(tree, j, f, Tail(axes)),
                    <<1, 1, 1>>)])

\* ------------------------------------------------------------- the inputs
\* The name the source file gives node i: a joint is named after its number,
\* an End Site is named "Site".
JointName(i) == "J" \o ToString(i)

\* The parent vectors of the trees of n nodes.
Shapes(n) ==
    {p \in [1..n -> 0..n] : p[1] = 0 /\ \A i \in 2..n : p[i] >= 1 /\ p[i] < i}

\* The node kinds of a shape: End Sites are leaves below a ROOT or JOINT, and
\* a joint has at most one End Site.
KindsOf(n, p) ==
    {k \in [1..n -> {"ROOT", "JOINT", "End"}] :
        /\ k[1] = "ROOT"
        /\ \A i \in 2..n : k[i] # "ROOT" /\ k[p[i]] # "End"
        /\ \A i, j \in 2..n : (i # j /\ k[i] = "End" /\ k[j] = "End") => p[i] # p[j]}

\* The channel declarations and motion data tried: the usual layout, joints
\* that carry position channels of their own, and incomplete rotations. With
\* aliased, the last JOINT node is named like the End Site of its parent will
\* be named.
DataSets ==
    { [root   |-> <<"Xposition", "Yposition", "Zposition", "Zrotation", "Xrotation", "Yrotation">>,
       joint  |-> <<"Zrotation", "Xrotation", "Yrotation">>,
       seed   |-> 1, aliased |-> FALSE],
      [root   |-> <<"Xposition", "Yposition", "Zposition", "Yrotation", "Xrotation", "Zrotation">>,
       joint  |-> <<"Xposition", "Yposition", "Zposition", "Xrotation", "Yrotation", "Zrotation">>,
       seed   |-> 2, aliased |-> TRUE],
      [root   |-> <<"Zposition", "Xposition", "Zrotation", "Yrotation">>,
       joint  |-> <<"Yrotation">>,
       seed   |-> 3, aliased |-> FALSE] }

\* The sampled value of channel number c of node i at frame f.
Sample(seed, i, c, f, channel) ==
    IF ChannelKind(channel) = "rotation"
    THEN 90 * ((seed + i + c + f) % 4)
    ELSE seed + 2 * i + c - f

\* The tree of a BVH file of n nodes with parents p, kinds k and data d.
Skeleton(n, p, k, d) ==
    LET lastJoint == CHOOSE i \in 0..n :
                        /\ i = 0 \/ (i >= 2 /\ k[i] = "JOINT")
                        /\ \A j \in 2..n : k[j] = "JOINT" => j <= i
        chan(i) == CASE k[i] = "ROOT" -> d.root [] k[i] = "JOINT" -> d.joint [] OTHER -> <<>>
        base == [i \in 1..n |-> IF k[i] = "End" THEN "Site" ELSE JointName(i)]
    IN  [kind     |-> k,
         name     |-> [i \in 1..n |-> IF d.aliased /\ i = lastJoint
                                      THEN base[p[i]] \o "_End" ELSE base[i]],
         parent   |-> p,
         OFFSET   |-> [i \in 1..n |-> <<i, d.seed - i, 1>>],
         CHANNELS |-> [i \in 1..n |-> chan(i)],
         frames   |-> [i \in 1..n |-> [f \in Frames |->
                          [c \in 1..Len(chan(i)) |-> Sample(d.seed, i, c, f, chan(i)[c])]]],
         nframes  |-> NFrames,
         frame_time |-> 1,
         world_transforms |-> [i \in 1..n |-> <<>>]]

SkeletonsOf(n) ==
    UNION {{Skeleton(n, p, k, d) : k \in KindsOf(n, p), d \in DataSets}
           : p \in Shapes(n)}

Skeletons == UNION {SkeletonsOf(n) : n \in 1..MaxNodes}

\* ------------------------------------------------------------- the tables
\* A data frame is a sequence of columns [name, data], data holding one value
\* per frame. The time column of both emitters:
\* pd.Series(np.arange(0, nframes * frame_time, frame_time), name='time').
time_col(tree) ==
    << [name |-> "time", data |-> [f \in 1..tree.nframes |-> (f - 1) * tree.frame_time]] >>

\* pd.concat(dfs, axis=1) with df.index.name = 'frame'.
RECURSIVE ConcatColumns(_)
ConcatColumns(dfs) ==
    IF dfs = <<>> THEN <<>> ELSE Head(dfs) \o ConcatColumns(Tail(dfs))
concat(dfs) == [index_name |-> "frame", columns |-> ConcatColumns(dfs)]

\* The file that does not exist.
NoFile == [exists |-> FALSE, table |-> [index_name |-> "", columns |-> <<>>]]

\* The number of columns of the CSV file of a table: the index and the rest.
CsvColumns(table) == 1 + Len(table.columns)

\* ----------------------------------------------------- the rotation emitter
\* The data frame of one joint in write_joint_rotations.
RotationFrame(tree, joint) ==
    LET channels == SelectRotations(joint_channels(tree, tree.name[joint]))
        data     == frames_joint_channels(tree, tree.name[joint], channels)
    IN  [c \in 1..Len(channels) |->
            [name |-> tree.name[joint] \o "." \o ChannelAxis(channels[c]),
             data |-> [f \in 1..tree.nframes |-> data[f][c]]]]

\* The table write_joint_rotations hands to to_csv.
RotationTable(tree) ==
    LET joints == get_joints(tree)
    IN  concat(<<time_col(tree)>> \o [i \in 1..Len(joints) |-> RotationFrame(tree, joints[i])])

\* ----------------------------------------------------- the location emitter
\* The walker's state: the tree (nodes are renamed and get world_transforms),
\* the data frames collected, the calls of get_world_locations still to make
\* (first the call the recursion makes next), the nodes processed so far, and
\* whether a node's parent had no world_transforms (AttributeError).
BeginWalk(tree) ==
    [tree  |-> tree,
     dfs   |-> <<time_col(tree)>>,
     stack |-> <<RootOf(tree)>>,
     order |-> <<>>,
     error |-> FALSE]

\* CallsOf with the two loops swapped: the JOINT children first, then the End
\* Site.
CallsOfJointsFirst(tree, joint, end_sites) ==
    LET end == filter(tree, joint, "End")
    IN  filter(tree, joint, "JOINT") \o (IF end_sites /\ end # <<>> THEN <<end[1]>> ELSE <<>>)

\* CallsOf with the JOINT loop in an else branch: a joint with an End Site
\* does not descend into its JOINT children.
CallsOfEndSiteOnly(tree, joint, end_sites) ==
    LET end == filter(tree, joint, "End")
    IN  IF end_sites /\ end # <<>> THEN <<end[1]>> ELSE filter(tree, joint, "JOINT")

\* The calls one call of get_world_locations makes, in order: the first End
\* Site when end_sites is set, then the JOINT children.
CallsOf(tree, joint, end_sites) ==
    LET end == filter(tree, joint, "End")
    IN  (IF end_sites /\ end # <<>> THEN <<end[1]>> ELSE <<>>) \o filter(tree, joint, "JOINT")

\* The transforms a call starts from: the identity for an End Site, else the
\* affines of the joint's channels, the rotation axes being the joint's
\* rotation channels in reverse order, in the static frame.
LocalTransforms(tree, joint) ==
    IF tree.kind[joint] = "End"
    THEN array([f \in 1..tree.nframes |-> compose(<<0, 0, 0>>, Eye3, <<1, 1, 1>>)])
    ELSE LET channels   == tree.CHANNELS[joint]
             rotations  == SelectRotations(channels)
             axes_order == [c \in 1..Len(rotations) |-> ChannelAxis(rotations[c])]
         IN  get_affines(tree, tree.name[joint], <<"s">> \o Reverse(axes_order))

\* The world transforms one call computes for joint: for a joint other than
\* the root the offsets are put in and the product with the parent's world
\* transforms is taken; then the translation is scaled.
WorldTransforms(tree, joint, scale) ==
    LET local  == LocalTransforms(tree, joint)
        offset == tree.OFFSET[joint]
        placed == IF joint # RootOf(tree)
                  THEN matmul(tree.world_transforms[tree.parent[joint]],
                              array([f \in DOMAIN local |-> SetTranslation(local[f], offset)]))
                  ELSE local
    IN  IF scale # 1
        THEN array([f \in DOMAIN placed |-> ScaleTranslation(placed[f], scale)])
        ELSE placed

\* NameAfterCall without the renaming: an End Site keeps the name 'Site'.
NameKept(tree, joint) == tree.name[joint]

\* NameAfterCall taking every leaf for an End Site: a joint without JOINT
\* children is renamed too.
NameAfterCallOnLeaf(tree, joint) ==
    IF joint # RootOf(tree) /\ filter(tree, joint, "JOINT") = <<>>
    THEN tree.name[tree.parent[joint]] \o "_End"
    ELSE tree.name[joint]

\* The value[1] a call leaves on the node.
NameAfterCall(tree, joint) ==
    IF tree.kind[joint] = "End"
    THEN tree.name[tree.parent[joint]] \o "_End"
    ELSE tree.name[joint]

\* One call of get_world_locations, on the node at the head of the stack.
get_world_locations(w, scale, end_sites) ==
    LET joint == Head(w.stack)
        named == [w.tree EXCEPT !.name[joint] = NameAfterCall(w.tree, joint)]
    IN  IF joint # RootOf(named) /\ named.world_transforms[named.parent[joint]] = <<>>
        THEN [w EXCEPT !.tree = named, !.stack = <<>>, !.error = TRUE]
        ELSE LET wt   == WorldTransforms(named, joint, scale)
                 tree == [named EXCEPT !.world_transforms[joint] = wt]
                 df   == [c \in 1..3 |->
                             [name |-> tree.name[joint] \o "." \o <<"x", "y", "z">>[c],
                              data |-> [f \in 1..tree.nframes |-> Translation(wt[f])[c]]]]
             IN  [tree  |-> tree,
                  dfs   |-> Append(w.dfs, df),
                  stack |-> CallsOf(tree, joint, end_sites) \o Tail(w.stack),
                  order |-> Append(w.order, joint),
                  error |-> FALSE]

\* get_world_locations(root): the walk run to its end.
RECURSIVE RunWalk(_, _, _)
RunWalk(w, scale, end_sites) ==
    IF w.stack = <<>> THEN w
    ELSE RunWalk(get_world_locations(w, scale, end_sites), scale, end_sites)

\* The table write_joint_locations hands to to_csv.
LocationTable(tree, scale, end_sites) ==
    concat(RunWalk(BeginWalk(tree), scale, end_sites).dfs)

\* The value bvh2csv returns.
ReturnValue(loc, rot) == IF ~(loc \/ rot) THEN FALSE ELSE TRUE

\* ------------------------------------------------------------- the program
VARIABLES
    argv,          \* the parsed command line: out, scale, rotation, location, ends
    file,          \* the tree the source file holds
    dir_exists,    \* whether the folder of --out exists
    files,         \* the two CSV files of the run: loc and rot
    pc,            \* the position of the run
    do_rotation,   \* __main__
    do_location,   \* __main__
    mocap,         \* bvh2csv: the parsed tree, shared by both emitters
    loc_success,   \* bvh2csv
    rot_success,   \* bvh2csv
    walk,          \* write_joint_locations: the walker's dfs, stack, order
    success,       \* __main__: what bvh2csv returned
    exit_code,     \* the exit status of the process, -1 while it runs
    trace          \* the calls made and messages printed, in order

vars == <<argv, file, dir_exists, files, pc, do_rotation, do_location, mocap,
          loc_success, rot_success, walk, success, exit_code, trace>>

\* The scale factors tried.
Scales == {1, 2}

\* mocap before the source file is parsed.
NoTree ==
    [kind |-> <<>>, name |-> <<>>, parent |-> <<>>, OFFSET |-> <<>>, CHANNELS |-> <<>>,
     frames |-> <<>>, nframes |-> 0, frame_time |-> 0, world_transforms |-> <<>>]

NoWalk == [dfs |-> <<>>, stack |-> <<>>, order |-> <<>>, error |-> FALSE]

Init ==
    /\ argv \in [out : {"", "csv"}, scale : Scales, rotation : BOOLEAN,
                 location : BOOLEAN, ends : BOOLEAN]
    /\ file \in Skeletons
    /\ dir_exists = (argv.out = "")
    /\ files = [loc |-> NoFile, rot |-> NoFile]
    /\ pc = "main"
    /\ do_rotation = FALSE
    /\ do_location = FALSE
    /\ mocap = NoTree
    /\ loc_success = FALSE
    /\ rot_success = FALSE
    /\ walk = NoWalk
    /\ success = FALSE
    /\ exit_code = -1
    /\ trace = <<>>

\* __main__ up to the call of bvh2csv: without -r and -l both are produced.
Main ==
    /\ pc = "main"
    /\ do_rotation' = (argv.rotation \/ (~argv.rotation /\ ~argv.location))
    /\ do_location' = (argv.location \/ (~argv.rotation /\ ~argv.location))
    /\ pc' = "open"
    /\ UNCHANGED <<argv, file, dir_exists, files, mocap, loc_success, rot_success,
                   walk, success, exit_code, trace>>

\* bvh2csv: the source file is opened, read and parsed.
OpenSource ==
    /\ pc = "open"
    /\ mocap' = file
    /\ pc' = "paths"
    /\ UNCHANGED <<argv, file, dir_exists, files, do_rotation, do_location,
                   loc_success, rot_success, walk, success, exit_code, trace>>

\* OpenFails without its return: the error is reported and bvh2csv goes on.
OpenFailsGoesOn ==
    /\ pc = "open"
    /\ trace' = Append(trace, "print: could not open file")
    /\ pc' = "paths"
    /\ UNCHANGED <<argv, file, dir_exists, files, do_rotation, do_location, mocap,
                   loc_success, rot_success, walk, success, exit_code>>

\* bvh2csv: open or read raises IOError.
OpenFails ==
    /\ pc = "open"
    /\ trace' = Append(trace, "print: could not open file")
    /\ success' = FALSE
    /\ pc' = "returned"
    /\ UNCHANGED <<argv, file, dir_exists, files, do_rotation, do_location, mocap,
                   loc_success, rot_success, walk, exit_code>>

\* bvh2csv: both results start True; the folder of --out is made when it
\* does not exist (a mkdir that raises is not modelled).
DestinationPath ==
    /\ pc = "paths"
    /\ loc_success' = TRUE
    /\ rot_success' = TRUE
    /\ IF argv.out # "" /\ ~dir_exists
       THEN dir_exists' = TRUE /\ trace' = Append(trace, "mkdir")
       ELSE UNCHANGED <<dir_exists, trace>>
    /\ pc' = "location"
    /\ UNCHANGED <<argv, file, files, do_rotation, do_location, mocap, walk,
                   success, exit_code>>

\* bvh2csv calls write_joint_locations, which calls get_world_locations(root).
BeginLocations ==
    /\ pc = "location"
    /\ do_location
    /\ walk' = [dfs   |-> BeginWalk(mocap).dfs,
                stack |-> BeginWalk(mocap).stack,
                order |-> BeginWalk(mocap).order,
                error |-> BeginWalk(mocap).error]
    /\ trace' = Append(trace, "write_joint_locations")
    /\ pc' = "walk"
    /\ UNCHANGED <<argv, file, dir_exists, files, do_rotation, do_location, mocap,
                   loc_success, rot_success, success, exit_code>>

SkipLocations ==
    /\ pc = "location"
    /\ ~do_location
    /\ pc' = "rotation"
    /\ UNCHANGED <<argv, file, dir_exists, files, do_rotation, do_location, mocap,
                   loc_success, rot_success, walk, success, exit_code, trace>>

\* The next call of get_world_locations.
GetWorldLocations ==
    /\ pc = "walk"
    /\ walk.stack # <<>>
    /\ LET w == get_world_locations([tree |-> mocap, dfs |-> walk.dfs, stack |-> walk.stack,
                                     order |-> walk.order, error |-> walk.error],
                                    argv.scale, argv.ends)
       IN  /\ mocap' = w.tree
           /\ walk' = [dfs |-> w.dfs, stack |-> w.stack, order |-> w.order, error |-> w.error]
    /\ UNCHANGED <<argv, file, dir_exists, files, pc, do_rotation, do_location,
                   loc_success, rot_success, success, exit_code, trace>>

\* WriteLocations without its except clause: the IOError of to_csv leaves
\* bvh2csv and ends the process.
WriteLocationsUncaught ==
    /\ pc = "walk"
    /\ walk.stack = <<>>
    /\ \E written \in BOOLEAN :
          /\ files' = IF written
                      THEN [files EXCEPT !.loc = [exists |-> TRUE,
                                                  table |-> concat(walk.dfs)]]
                      ELSE files
          /\ trace' = trace \o <<"to_csv: loc">>
          /\ loc_success' = loc_success
          /\ exit_code' = IF written THEN exit_code ELSE 1
          /\ pc' = IF written THEN "rotation" ELSE "exit"
    /\ UNCHANGED <<argv, file, dir_exists, do_rotation, do_location, mocap,
                   rot_success, walk, success>>

\* write_joint_locations after the walk: the table is written, or to_csv
\* raises IOError, which is caught and reported. An AttributeError of the
\* walk is caught nowhere: the process dies.
WriteLocations ==
    /\ pc = "walk"
    /\ walk.stack = <<>>
    /\ IF walk.error
       THEN /\ exit_code' = 1
            /\ pc' = "exit"
            /\ UNCHANGED <<files, trace, loc_success>>
       ELSE /\ \E written \in BOOLEAN :
                  /\ files' = IF written
                              THEN [files EXCEPT !.loc = [exists |-> TRUE,
                                                          table |-> concat(walk.dfs)]]
                              ELSE files
                  /\ trace' = trace \o <<"to_csv: loc">>
                                    \o (IF written THEN <<>> ELSE <<"print: could not write loc">>)
                  /\ loc_success' = written
            /\ pc' = "rotation"
            /\ UNCHANGED exit_code
    /\ UNCHANGED <<argv, file, dir_exists, do_rotation, do_location, mocap,
                   rot_success, walk, success>>

\* bvh2csv calls write_joint_rotations on the same tree.
WriteRotations ==
    /\ pc = "rotation"
    /\ do_rotation
    /\ \E written \in BOOLEAN :
          /\ files' = IF written
                      THEN [files EXCEPT !.rot = [exists |-> TRUE, table |-> RotationTable(mocap)]]
                      ELSE files
          /\ trace' = trace \o <<"write_joint_rotations", "to_csv: rot">>
                            \o (IF written THEN <<>> ELSE <<"print: could not write rot">>)
          /\ rot_success' = written
    /\ pc' = "return"
    /\ UNCHANGED <<argv, file, dir_exists, do_rotation, do_location, mocap,
                   loc_success, walk, success, exit_code>>

SkipRotations ==
    /\ pc = "rotation"
    /\ ~do_rotation
    /\ pc' = "return"
    /\ UNCHANGED <<argv, file, dir_exists, files, do_rotation, do_location, mocap,
                   loc_success, rot_success, walk, success, exit_code, trace>>

\* bvh2csv returns.
Return ==
    /\ pc = "return"
    /\ success' = ReturnValue(loc_success, rot_success)
    /\ pc' = "returned"
    /\ UNCHANGED <<argv, file, dir_exists, files, do_rotation, do_location, mocap,
                   loc_success, rot_success, walk, exit_code, trace>>

\* __main__ after bvh2csv: a failure is reported and exits with status 1.
Exit ==
    /\ pc = "returned"
    /\ IF ~success
       THEN exit_code' = 1 /\ trace' = Append(trace, "print: some errors occurred")
       ELSE exit_code' = 0 /\ UNCHANGED trace
    /\ pc' = "exit"
    /\ UNCHANGED <<argv, file, dir_exists, files, do_rotation, do_location, mocap,
                   loc_success, rot_success, walk, success>>

Next ==
    \/ Main
    \/ OpenSource
    \/ OpenFails
    \/ DestinationPath
    \/ BeginLocations
    \/ SkipLocations
    \/ GetWorldLocations
    \/ WriteLocations
    \/ WriteRotations
    \/ SkipRotations
    \/ Return
    \/ Exit

Spec == Init /\ [][Next]_vars

\* ---------------------------------------------------------------- claims
InTrace(e) == \E i \in DOMAIN trace : trace[i] = e
Count(e) == Cardinality({i \in DOMAIN trace : trace[i] = e})

\* The source file was opened and read.
Opened == ~InTrace("print: could not open file")

\* C1: whatever outputs are requested, when the write of a requested output
\* fails bvh2csv returns False and the run exits with a nonzero status.
C1_AnyWriteFailureFailsTheRun ==
    (pc = "exit" /\ (InTrace("print: could not write loc") \/ InTrace("print: could not write rot")))
        => (~success /\ exit_code # 0)

\* C4: the run over, with the source opened, each requested write was
\* attempted exactly once and no other; a failed location write was reported,
\* made loc_success False and did not keep the rotation write from being
\* attempted; each file exists exactly when its own write succeeded.
C4_WriteFailuresAreLocal ==
    (pc = "exit" /\ Opened) =>
        /\ Count("to_csv: loc") = (IF do_location THEN 1 ELSE 0)
        /\ Count("to_csv: rot") = (IF do_rotation THEN 1 ELSE 0)
        /\ do_location => (InTrace("print: could not write loc") <=> ~loc_success)
        /\ do_rotation => (InTrace("print: could not write rot") <=> ~rot_success)
        /\ files.loc.exists <=> (do_location /\ loc_success)
        /\ files.rot.exists <=> (do_rotation /\ rot_success)

\* C4's case: both requested, the location write failed, the rotation write
\* went through; and the other way round.
C4_Witness ==
    /\ pc = "exit"
    /\ do_location /\ do_rotation
    /\ InTrace("print: could not write loc")
    /\ files.rot.exists /\ ~files.loc.exists

\* C5: a source file that cannot be opened is reported, bvh2csv returns False,
\* the exit status is nonzero; no folder is made, neither emitter is called,
\* no tree is walked and no file is written.
C5_UnreadableSourceStopsTheRun ==
    ~Opened =>
        /\ pc \in {"returned", "exit"}
        /\ ~success
        /\ pc = "exit" => exit_code = 1
        /\ ~InTrace("mkdir")
        /\ dir_exists = (argv.out = "")
        /\ ~InTrace("write_joint_locations") /\ ~InTrace("write_joint_rotations")
        /\ ~InTrace("to_csv: loc") /\ ~InTrace("to_csv: rot")
        /\ walk = NoWalk
        /\ mocap = NoTree
        /\ files = [loc |-> NoFile, rot |-> NoFile]

\* C5's case: the open failed in a run that names a folder that does not exist.
C5_Witness ==
    /\ pc = "exit"
    /\ ~Opened
    /\ argv.out # ""
    /\ exit_code = 1

\* The walk of get_world_locations(root) has returned.
WalkDone == pc = "walk" /\ walk.stack = <<>> /\ ~walk.error

Processed == {walk.order[k] : k \in DOMAIN walk.order}

Scaled(v, k) == <<v[1] * k, v[2] * k, v[3] * k>>

\* The rotation block M[:3, :3] of an affine.
RotationBlock(M) ==
    LET e(i, j) == M[i][j]
    IN  << <<e(1, 1), e(1, 2), e(1, 3)>>,
           <<e(2, 1), e(2, 2), e(2, 3)>>,
           <<e(3, 1), e(3, 2), e(3, 3)>> >>

\* C2: at every node and frame, the world translation of a run with scale k
\* is k times that of the run with scale 1 on the same file, and the rotation
\* block is the same.
C2_ScaleInvariance ==
    WalkDone =>
        LET one == RunWalk(BeginWalk(file), 1, argv.ends).tree.world_transforms
        IN  \A j \in Processed : \A f \in 1..file.nframes :
                /\ Translation(mocap.world_transforms[j][f])
                      = Scaled(Translation(one[j][f]), argv.scale)
                /\ RotationBlock(mocap.world_transforms[j][f]) = RotationBlock(one[j][f])

\* The local transform of C3: the rotation of the node's channels (none for
\* an End Site) with the given translation.
LocalWith(j, f, T) == compose(T, RotationBlock(LocalTransforms(file, j)[f]), <<1, 1, 1>>)

\* C3: after the walk the world transform of the root is its local transform
\* with the channel translation times scale, and the world transform of every
\* other node is its parent's world transform times its local transform with
\* the offset times scale.
C3_Composition ==
    WalkDone =>
        \A j \in Processed : \A f \in 1..file.nframes :
            IF j = RootOf(file)
            THEN mocap.world_transforms[j][f]
                    = LocalWith(j, f, Scaled(Translation(LocalTransforms(file, j)[f]), argv.scale))
            ELSE mocap.world_transforms[j][f]
                    = MatMul4(mocap.world_transforms[file.parent[j]][f],
                              LocalWith(j, f, Scaled(file.OFFSET[j], argv.scale)))

\* The data frames of dfs that belong to the nodes of order that are no End
\* Sites.
RECURSIVE JointFrames(_, _)
JointFrames(dfs, order) ==
    IF order = <<>> THEN <<>>
    ELSE (IF file.kind[Head(order)] = "End" THEN <<>> ELSE <<Head(dfs)>>)
         \o JointFrames(Tail(dfs), Tail(order))

\* C6: the location table of a run with end_sites, without the columns of
\* the End Sites, is the location table of the run without end_sites: the
\* same columns in the same order with the same values.
C6_EndSitesDoNotInterfere ==
    (WalkDone /\ argv.ends) =>
        concat(<<Head(walk.dfs)>> \o JointFrames(Tail(walk.dfs), walk.order))
            = LocationTable(file, argv.scale, FALSE)

\* C6's case: an End Site was processed and a joint after it.
C6_Witness ==
    /\ WalkDone /\ argv.ends
    /\ \E a, b \in DOMAIN walk.order :
          a < b /\ file.kind[walk.order[a]] = "End" /\ file.kind[walk.order[b]] = "JOINT"

Joints == {i \in Nodes(file) : file.kind[i] \in {"ROOT", "JOINT"}}
EndSites == {i \in Nodes(file) : file.kind[i] = "End"}
RotationChannels ==
    {ic \in UNION {{<<i, c>> : c \in DOMAIN file.CHANNELS[i]} : i \in Joints} :
        file.CHANNELS[ic[1]][ic[2]] \in {"Xrotation", "Yrotation", "Zrotation"}}

\* C7: the rotation file has 1 + 1 + (number of rotation channels of all
\* joints) columns; the location file has 1 + 1 + 3 x (number of ROOT and
\* JOINT nodes) columns, and 3 x (number of End Sites) more with end_sites.
C7_ColumnCompleteness ==
    /\ files.rot.exists => CsvColumns(files.rot.table) = 1 + 1 + Cardinality(RotationChannels)
    /\ files.loc.exists =>
          CsvColumns(files.loc.table)
             = 1 + 1 + 3 * Cardinality(Joints)
                 + (IF argv.ends THEN 3 * Cardinality(EndSites) ELSE 0)

\* C7's case: both files written, with End Sites, of a tree whose joints
\* have channels that are no rotations.
C7_Witness ==
    /\ files.rot.exists /\ files.loc.exists
    /\ argv.ends /\ EndSites # {}
    /\ \E j \in Joints : j # RootOf(file) /\ "Xposition" \in {file.CHANNELS[j][c] : c \in DOMAIN file.CHANNELS[j]}

\* The pre-order of the tree: a node, its End Site when included, then the
\* subtrees of its JOINT children in their order.
RECURSIVE PreOrder(_, _, _), PreOrderAll(_, _, _)
PreOrder(tree, j, ends) ==
    LET end == {e \in Nodes(tree) : tree.parent[e] = j /\ tree.kind[e] = "End"}
    IN  <<j>> \o (IF ends /\ end # {} THEN <<CHOOSE e \in end : TRUE>> ELSE <<>>)
            \o PreOrderAll(tree, filter(tree, j, "JOINT"), ends)
PreOrderAll(tree, js, ends) ==
    IF js = <<>> THEN <<>>
    ELSE PreOrder(tree, Head(js), ends) \o PreOrderAll(tree, Tail(js), ends)

\* C8: the nodes are processed in pre-order from the root, an End Site right
\* after its joint; so before any node but the root is processed its parent
\* was processed and has its world transforms.
C8_TraversalOrder ==
    pc = "walk" =>
        LET pre == PreOrder(file, RootOf(file), argv.ends)
        IN  /\ ~walk.error
            /\ Len(walk.order) <= Len(pre)
            /\ walk.order = SubSeq(pre, 1, Len(walk.order))
            /\ walk.stack = <<>> => walk.order = pre
            /\ \A k \in DOMAIN walk.order :
                  walk.order[k] # RootOf(file) =>
                      \E m \in 1..(k - 1) : walk.order[m] = file.parent[walk.order[k]]
            /\ walk.stack # <<>> =>
                  \/ Head(walk.stack) = RootOf(file)
                  \/ mocap.world_transforms[file.parent[Head(walk.stack)]] # <<>>

\* C8's case: an End Site that stands after a JOINT child in the file was
\* processed before it, and a grandchild was processed.
C8_Witness ==
    /\ WalkDone
    /\ \E a, b \in DOMAIN walk.order :
          /\ a < b /\ walk.order[a] > walk.order[b]
          /\ file.kind[walk.order[a]] = "End"
    /\ \E j \in Processed : j # RootOf(file) /\ file.parent[j] # RootOf(file)

ColumnNames(table) == [c \in DOMAIN table.columns |-> table.columns[c].name]
Distinct(s) == \A a, b \in DOMAIN s : a # b => s[a] # s[b]

\* The names of the joints are unique within the tree.
UniqueJointNames == \A a, b \in Joints : a # b => file.name[a] # file.name[b]

\* Every processed End Site is named {parent_name}_End and has the columns
\* {parent_name}_End.x, .y, .z.
EndSitesNamed ==
    \A k \in DOMAIN walk.order :
        file.kind[walk.order[k]] = "End" =>
            LET e    == walk.order[k]
                name == file.name[file.parent[e]] \o "_End"
            IN  /\ mocap.name[e] = name
                /\ ColumnNames(concat(<<walk.dfs[k + 1]>>))
                      = <<name \o ".x", name \o ".y", name \o ".z">>

\* C9 as stated: with end_sites and unique joint names the End Sites are
\* named {parent_name}_End and all column names of the location table are
\* pairwise distinct.
C9_ColumnNamesDistinct ==
    (WalkDone /\ argv.ends /\ UniqueJointNames) =>
        /\ EndSitesNamed
        /\ Distinct(ColumnNames(concat(walk.dfs)))

\* No joint has the name an End Site of the tree is given.
NoJointNamedLikeAnEndSite ==
    \A j \in Joints : \A e \in EndSites : file.name[j] # file.name[file.parent[e]] \o "_End"

\* C9 as amended: with end_sites and unique joint names the End Sites are
\* named {parent_name}_End, and the column names of the location table are
\* pairwise distinct when no joint is named {P}_End for a joint P that has an
\* End Site.
C9_ColumnNamesDistinctUnlessAliased ==
    (WalkDone /\ argv.ends /\ UniqueJointNames) =>
        /\ EndSitesNamed
        /\ NoJointNamedLikeAnEndSite => Distinct(ColumnNames(concat(walk.dfs)))

\* C9's case: two End Sites were processed, of a tree without such a joint.
C9_Witness ==
    /\ WalkDone /\ argv.ends /\ UniqueJointNames /\ NoJointNamedLikeAnEndSite
    /\ Cardinality({e \in Processed : file.kind[e] = "End"}) >= 2

\* The place of the first e in the trace, 0 when it is not there.
FirstInTrace(e) ==
    IF InTrace(e) THEN CHOOSE i \in DOMAIN trace : trace[i] = e /\ \A j \in 1..(i - 1) : trace[j] # e
    ELSE 0

\* C10: the location emitter runs before the rotation emitter; the rotation
\* file written after the location pass holds the table the rotation emitter
\* makes of the freshly parsed tree, and the location pass leaves the
\* structure, the channel data, the offsets and the joint names of the tree
\* as they were parsed.
C10_RotationOutputUnchanged ==
    /\ (InTrace("write_joint_locations") /\ InTrace("write_joint_rotations"))
          => FirstInTrace("to_csv: loc") < FirstInTrace("write_joint_rotations")
    /\ files.rot.exists => files.rot.table = RotationTable(file)
    /\ mocap # NoTree =>
          /\ mocap.kind = file.kind
          /\ mocap.parent = file.parent
          /\ mocap.CHANNELS = file.CHANNELS
          /\ mocap.frames = file.frames
          /\ mocap.OFFSET = file.OFFSET
          /\ \A j \in Joints : mocap.name[j] = file.name[j]

\* C10's case: the rotation file written after a location pass with scale
\* and End Sites, which renamed an End Site and set world transforms.
C10_Witness ==
    /\ files.rot.exists
    /\ do_location /\ argv.ends /\ argv.scale # 1
    /\ \E e \in EndSites : mocap.name[e] # file.name[e] /\ mocap.world_transforms[e] # <<>>

====
